---- MODULE Spec2Model ----
(***************************************************************************)
(* Model of removespikes.core.RemoveSpikes: the angle calculation, the     *)
(* spike classification, the single-pass vertex filter over a LineString   *)
(* or a Polygon exterior, and the per-row mapping over a GeoDataFrame.     *)
(*                                                                         *)
(* Numbers.  Coordinates are integers.  The code works in floating point;  *)
(* the model works in exact arithmetic and keeps every comparison of the   *)
(* code exact by representing                                              *)
(*   - a length by its square (d > m  <=>  m < 0 \/ d^2 > m^2), and        *)
(*   - an angle in [0, 180] degrees by the signed square of its cosine,    *)
(*     the fraction num/den = sgn(dot) * dot^2 / (|BA|^2 * |BC|^2).        *)
(*     arccos is strictly decreasing and x |-> sgn(x) * x^2 is strictly    *)
(*     increasing, so  angle < t  <=>  num/den > sgn(cos t) * cos(t)^2.    *)
(* Python indices are 0-based, the sequences here are 1-based: coords[k]   *)
(* of the code is coords[k + 1] here.                                      *)
(***************************************************************************)
EXTENDS Integers, Sequences, FiniteSets, TLC

\* ------------------------------------------------------------- bounds
\* Longest LineString coordinate list; a Polygon exterior has up to
\* MaxLen + 1 coordinates (MaxLen vertices and the closing duplicate).
MaxLen == 4
\* Most rows of a GeoDataFrame.
MaxRows == 2

\* The planar sample points: a 3 x 2 grid.
Points == (0 .. 2) \X (0 .. 1)

\* angle_threshold values, in degrees (multiples of 45, whose cosine has a
\* rational square), inside and outside the range of an angle.
Thresholds == {0, 45, 180, 225}

\* min_distance values: negative, zero, and the length of a unit edge.
MinDistances == {-1, 0, 1}

\* ------------------------------------------------------------- vectors
RECURSIVE DotTo(_, _, _)
DotTo(u, v, k) == IF k = 0 THEN 0 ELSE DotTo(u, v, k - 1) + u[k] * v[k]

\* np.dot of two 1-d arrays.
Dot(u, v) == DotTo(u, v, Len(u))

\* A - B on numpy arrays: componentwise.
Sub(p, q) == [k \in 1 .. Len(p) |-> p[k] - q[k]]

\* np.linalg.norm(v), squared.
NormSq(v) == Dot(v, v)

Sgn(x) == IF x > 0 THEN 1 ELSE IF x < 0 THEN -1 ELSE 0

\* np.clip(cos_angle, -1.0, 1.0) on the signed-square fraction (den > 0).
Clip(f) ==
  IF f.num > f.den THEN [num |-> f.den, den |-> f.den]
  ELSE IF f.num < -f.den THEN [num |-> -f.den, den |-> f.den]
  ELSE f

\* ------------------------------------------------------------- _calculate_angle
\* The result of a call: either the exception raised, or the angle (as the
\* signed square of its cosine).
CalculateAngle(a, b, c) ==
  LET BA == Sub(a, b)
      BC == Sub(c, b)
      dot_product == Dot(BA, BC)
      mag_sq == NormSq(BA) * NormSq(BC)
  IN  IF mag_sq = 0
      THEN [raised |-> "ZeroDivisionError", angle |-> [num |-> 0, den |-> 1]]
      ELSE [raised |-> "none",
            angle |-> Clip([num |-> Sgn(dot_product) * dot_product * dot_product,
                            den |-> mag_sq])]

\* Twice the signed square of cos(t) for the thresholds in [0, 180].
CosSq2(t) ==
  CASE t = 0 -> 2
    [] t = 45 -> 1
    [] t = 90 -> 0
    [] t = 135 -> -1
    [] t = 180 -> -2

\* angle < angle_threshold, for an angle in [0, 180].
AngleLess(angle, t) ==
  IF t > 180 THEN TRUE
  ELSE IF t <= 0 THEN FALSE
  ELSE 2 * angle.num > CosSq2(t) * angle.den

\* ((p[0] - q[0]) ** 2 + (p[1] - q[1]) ** 2) ** 0.5, squared: the first two
\* components only.
DistSq(p, q) == (p[1] - q[1]) * (p[1] - q[1]) + (p[2] - q[2]) * (p[2] - q[2])

\* d > min_distance, for the length d with square d_sq.
DistGreater(d_sq, m) == m < 0 \/ d_sq > m * m

\* ------------------------------------------------------------- _is_spike
IsSpikeErrorAsSpike(a, b, c, angle_threshold, min_distance) ==
  LET r == CalculateAngle(a, b, c)
  IN  IF r.raised # "none" THEN TRUE
      ELSE /\ AngleLess(r.angle, angle_threshold)
           /\ DistGreater(DistSq(a, b), min_distance)
           /\ DistGreater(DistSq(b, c), min_distance)

IsSpikeNonStrict(a, b, c, angle_threshold, min_distance) ==
  LET r == CalculateAngle(a, b, c)
  IN  IF r.raised # "none" THEN FALSE
      ELSE /\ AngleLess(r.angle, angle_threshold)
           /\ DistSq(a, b) >= min_distance * min_distance
           /\ DistSq(b, c) >= min_distance * min_distance

IsSpike(a, b, c, angle_threshold, min_distance) ==
  LET r == CalculateAngle(a, b, c)
  IN  IF r.raised # "none" THEN FALSE
      ELSE /\ AngleLess(r.angle, angle_threshold)
           /\ DistGreater(DistSq(a, b), min_distance)
           /\ DistGreater(DistSq(b, c), min_distance)

\* ------------------------------------------------------------- geometries
\* A shapely geometry: its type, its coordinate list (the exterior's, for a
\* Polygon) and its interior rings (a Polygon's holes).
Geom(kind, coords, interiors) ==
  [kind |-> kind, coords |-> coords, interiors |-> interiors]

NoGeometry == Geom("None", <<>>, <<>>)

SeqsOf(S, lo, hi) == UNION {[1 .. k -> S] : k \in lo .. hi}

\* A LineString has no coordinates or at least two.
LineStrings ==
  {Geom("LineString", cs, <<>>) : cs \in {<<>>} \cup SeqsOf(Points, 2, MaxLen)}

\* A Polygon is empty, or its exterior is a closed ring: at least three
\* vertices, then the first one again.
Polygons ==
  {Geom("Polygon", <<>>, <<>>)}
    \cup {Geom("Polygon", cs \o <<cs[1]>>, <<>>) : cs \in SeqsOf(Points, 3, MaxLen)}

\* An interior ring (a hole) of the sample polygons that have one.
SampleHole == << <<1, 0>>, <<2, 0>>, <<1, 1>>, <<1, 0>> >>

\* The same exteriors, each with the hole.
PolygonsWithHole ==
  {Geom("Polygon", cs \o <<cs[1]>>, <<SampleHole>>) : cs \in SeqsOf(Points, 3, MaxLen)}

\* Geometries of another type: a Point (empty or not).
Others ==
  {Geom("Point", <<>>, <<>>)} \cup {Geom("Point", <<p>>, <<>>) : p \in Points}

Geometries == LineStrings \cup Polygons \cup PolygonsWithHole \cup Others

\* geometry.is_empty
IsEmpty(g) == Len(g.coords) = 0

\* isinstance(geometry, LineString), isinstance(geometry, Polygon)
IsLine(g) == g.kind = "LineString"
IsPolygon(g) == g.kind = "Polygon"

\* Line 99 tests `not is_polygon`, the function object itself and not its
\* result: a function object is true.
IsPolygonObjectTruth == TRUE

\* geometry.exterior exists on a Polygon only.
HasExterior(g) == g.kind = "Polygon"

\* LineString(new_coords): one coordinate alone is rejected.
LineStringCtor(cs) ==
  IF Len(cs) = 1
  THEN [raised |-> "ValueError", value |-> NoGeometry]
  ELSE [raised |-> "none", value |-> Geom("LineString", cs, <<>>)]

\* Polygon(new_coords): the shell only, no holes.  No coordinates give the
\* empty polygon, one or two are rejected (a linear ring needs three), and
\* otherwise the ring is closed when it is not (three coordinates always).
PolygonCtor(cs) ==
  IF Len(cs) = 0 THEN [raised |-> "none", value |-> Geom("Polygon", <<>>, <<>>)]
  ELSE IF Len(cs) < 3 THEN [raised |-> "ValueError", value |-> NoGeometry]
  ELSE IF Len(cs) = 3 \/ cs[1] # cs[Len(cs)]
  THEN [raised |-> "none", value |-> Geom("Polygon", cs \o <<cs[1]>>, <<>>)]
  ELSE [raised |-> "none", value |-> Geom("Polygon", cs, <<>>)]

\* ------------------------------------------------------------- state
VARIABLES
  geometry,         \* the argument of _remove_spikes_from_geometry
  angle_threshold,  \* its angle_threshold (from_geodataframe's angle)
  min_distance,     \* its min_distance
  pc,               \* where the call is: "idle", "start", "loop", "done"
  coords,           \* the local coords
  new_coords,       \* the local new_coords
  i,                \* the loop variable (0-based, as in the code)
  call,             \* the last _is_spike call: arguments and result
  result,           \* the geometry returned
  raised,           \* the exception that left the call, or "none"
  gdf,              \* the argument of from_geodataframe
  gdf_copy,         \* gdf.copy(), the collection returned
  series,           \* the results of apply so far, row by row
  row,              \* the row apply is at (1-based)
  gpc,              \* where from_geodataframe (or from_file) is
  cli_pc,           \* where the CLI's main is
  cli_layer,        \* args.layer ("" when the option is absent)
  events,           \* main's calls of from_file and to_file, in order
  stdout,           \* what main has printed
  to_file_raised,   \* the exception gdf.to_file raised, or "none"
  exit_status,      \* the process's exit status once main is over, or -1
  probe             \* two calls on triples that differ in the third component

geom_vars ==
  <<geometry, angle_threshold, min_distance, pc, coords, new_coords, i, call,
    result, raised>>
gdf_vars == <<gdf, gdf_copy, series, row, gpc>>
cli_vars == <<cli_pc, cli_layer, events, stdout, to_file_raised, exit_status>>
aux_vars == <<cli_vars, probe>>
vars == <<geom_vars, gdf_vars, aux_vars>>

NoCall == [made |-> FALSE, at |-> -1, a |-> <<0, 0>>, b |-> <<0, 0>>,
           c |-> <<0, 0>>, ret |-> FALSE]

\* _is_spike(a, b, c, angle_threshold, min_distance) called for index `at`.
SpikeCall(at, a, b, c) ==
  [made |-> TRUE, at |-> at, a |-> a, b |-> b, c |-> c,
   ret |-> IsSpike(a, b, c, angle_threshold, min_distance)]

\* No probe is under way.
NoProbe == [stage |-> "none"]

\* The CLI is not running.
CliIdle ==
  /\ cli_pc = "none"
  /\ cli_layer = ""
  /\ events = <<>>
  /\ stdout = <<>>
  /\ to_file_raised = "none"
  /\ exit_status = -1

\* ------------------------------------------------------------- _remove_spikes_from_geometry
\* Lines 107-115: new_coords before the loop.  It starts with coords[0]; for
\* a Polygon whose first point is a spike against coords[-2] and coords[1]
\* it starts empty.
InitialNewCoordsKeepFirst(g, cs, at, md) == <<cs[1]>>

InitialNewCoordsNoTypeCheck(g, cs, at, md) ==
  IF IsSpike(cs[Len(cs) - 1], cs[1], cs[2], at, md) THEN <<>> ELSE <<cs[1]>>

InitialNewCoordsClosingAsPrev(g, cs, at, md) ==
  IF IsPolygon(g) /\ IsSpike(cs[Len(cs)], cs[1], cs[2], at, md)
  THEN <<>>
  ELSE <<cs[1]>>

InitialNewCoords(g, cs, at, md) ==
  IF IsPolygon(g) /\ IsSpike(cs[Len(cs) - 1], cs[1], cs[2], at, md)
  THEN <<>>
  ELSE <<cs[1]>>

\* Lines 118-125: one iteration of the loop, for the 0-based index k:
\* coords[k] is kept unless it is a spike between coords[k - 1] and
\* coords[k + 1].
LoopAppendCascading(nc, cs, k, at, md) ==
  LET prev_pt == IF Len(nc) > 0 THEN nc[Len(nc)] ELSE cs[k]
  IN  IF ~IsSpike(prev_pt, cs[k + 1], cs[k + 2], at, md)
      THEN Append(nc, cs[k + 1])
      ELSE nc

LoopAppend(nc, cs, k, at, md) ==
  IF ~IsSpike(cs[k], cs[k + 1], cs[k + 2], at, md)
  THEN Append(nc, cs[k + 1])
  ELSE nc

\* Lines 132-133: the last point is appended for a LineString only.
FinalCoordsNoLast(g, nc, cs) == nc

FinalCoordsAlways(g, nc, cs) == Append(nc, cs[Len(cs)])

FinalCoords(g, nc, cs) == IF IsLine(g) THEN Append(nc, cs[Len(cs)]) ELSE nc

\* Lines 117-125: the iterations of the loop from the 0-based index k on.
RECURSIVE LoopFrom(_, _, _, _, _)
LoopFrom(nc, cs, k, at, md) ==
  IF k < Len(cs) - 1
  THEN LoopFrom(LoopAppend(nc, cs, k, at, md), cs, k + 1, at, md)
  ELSE nc

\* Lines 102-133: the retained coordinates of a non-empty LineString or
\* Polygon, new_coords as the constructor receives it.
Retained(g, at, md) ==
  FinalCoords(g, LoopFrom(InitialNewCoords(g, g.coords, at, md), g.coords, 1, at, md),
              g.coords)

\* Lines 135-140: the geometry built from the retained coordinates.
Construct(g, cs) ==
  IF IsLine(g) THEN LineStringCtor(cs)
  ELSE IF IsPolygon(g) THEN PolygonCtor(cs)
  ELSE [raised |-> "none", value |-> g]

\* Lines 90-115: the empty geometry is returned as it is; the test of line
\* 99 never holds; a geometry with no exterior fails at line 105; the
\* others start the scan.
Begin ==
  /\ pc = "start"
  /\ IF IsEmpty(geometry)
     THEN /\ pc' = "done"
          /\ result' = geometry
          /\ raised' = "none"
          /\ UNCHANGED <<coords, new_coords, i, call>>
     ELSE IF ~IsLine(geometry) /\ ~IsPolygonObjectTruth
     THEN /\ pc' = "done"
          /\ result' = geometry
          /\ raised' = "none"
          /\ UNCHANGED <<coords, new_coords, i, call>>
     ELSE IF ~IsLine(geometry) /\ ~HasExterior(geometry)
     THEN /\ pc' = "done"
          /\ raised' = "AttributeError"
          /\ UNCHANGED <<coords, new_coords, i, call, result>>
     ELSE /\ coords' = geometry.coords
          /\ new_coords' =
               InitialNewCoords(geometry, geometry.coords, angle_threshold,
                                min_distance)
          /\ call' =
               IF IsPolygon(geometry)
               THEN SpikeCall(0, geometry.coords[Len(geometry.coords) - 1],
                              geometry.coords[1], geometry.coords[2])
               ELSE call
          /\ i' = 1
          /\ pc' = "loop"
          /\ UNCHANGED <<result, raised>>
  /\ UNCHANGED <<geometry, angle_threshold, min_distance, gdf_vars, aux_vars>>

\* Lines 117-125: one iteration of `for i in range(1, len(coords) - 1)`.
LoopStep ==
  /\ pc = "loop"
  /\ i < Len(coords) - 1
  /\ new_coords' = LoopAppend(new_coords, coords, i, angle_threshold, min_distance)
  /\ call' = SpikeCall(i, coords[i], coords[i + 1], coords[i + 2])
  /\ i' = i + 1
  /\ UNCHANGED <<geometry, angle_threshold, min_distance, pc, coords, result,
                 raised, gdf_vars, aux_vars>>

\* Lines 127-140: after the loop, the last point (LineString) and the new
\* geometry, or the constructor's exception.
Finish ==
  /\ pc = "loop"
  /\ i >= Len(coords) - 1
  /\ LET final == FinalCoords(geometry, new_coords, coords)
         built == Construct(geometry, final)
     IN  /\ new_coords' = final
         /\ raised' = built.raised
         /\ result' = IF built.raised = "none" THEN built.value ELSE result
  /\ pc' = "done"
  /\ UNCHANGED <<geometry, angle_threshold, min_distance, coords, i, call,
                 gdf_vars, aux_vars>>

\* One call of _remove_spikes_from_geometry, on any geometry and thresholds.
Init ==
  /\ geometry \in Geometries
  /\ angle_threshold \in Thresholds
  /\ min_distance \in MinDistances
  /\ pc = "start"
  /\ coords = <<>>
  /\ new_coords = <<>>
  /\ i = 0
  /\ call = NoCall
  /\ result = NoGeometry
  /\ raised = "none"
  /\ gdf = <<>>
  /\ gdf_copy = <<>>
  /\ series = <<>>
  /\ row = 0
  /\ gpc = "none"
  /\ CliIdle
  /\ probe = NoProbe

Next == Begin \/ LoopStep \/ Finish

Spec == Init /\ [][Next]_vars

\* ------------------------------------------------------------- from_geodataframe
\* The geometries of the sample rows: an empty LineString, a LineString
\* with a spike, a rectangle, a triangle whose junction is a spike at 45
\* degrees, and a Point.
SampleGeometries ==
  { Geom("LineString", <<>>, <<>>),
    Geom("LineString", << <<0, 0>>, <<2, 0>>, <<1, 0>> >>, <<>>),
    Geom("Polygon", << <<0, 0>>, <<2, 0>>, <<2, 1>>, <<0, 1>>, <<0, 0>> >>, <<>>),
    Geom("Polygon", << <<0, 0>>, <<2, 1>>, <<2, 0>>, <<0, 0>> >>, <<>>),
    Geom("Point", << <<0, 0>> >>, <<>>) }

\* A GeoDataFrame: rows in order, each with the geometry column and one
\* other attribute.
GeoDataFrames(n) ==
  {[r \in 1 .. n |-> [id |-> r, geometry |-> gs[r]]] :
     gs \in [1 .. n -> SampleGeometries]}

AllGeoDataFrames == UNION {GeoDataFrames(n) : n \in 0 .. MaxRows}

\* Line 194: gdf = gdf.copy(); then apply starts at the first row.
CopyGdf ==
  /\ gpc = "called"
  /\ gdf_copy' = gdf
  /\ series' = <<>>
  /\ row' = 1
  /\ gpc' = "apply"
  /\ UNCHANGED <<geom_vars, gdf, aux_vars>>

\* Lines 196-200: apply calls the lambda on the next row's geometry.
ApplyRow ==
  /\ gpc = "apply"
  /\ pc = "idle"
  /\ row <= Len(gdf_copy)
  /\ geometry' = gdf_copy[row].geometry
  /\ pc' = "start"
  /\ coords' = <<>>
  /\ new_coords' = <<>>
  /\ i' = 0
  /\ call' = NoCall
  /\ result' = NoGeometry
  /\ raised' = "none"
  /\ UNCHANGED <<angle_threshold, min_distance, gdf_vars, aux_vars>>

\* Lines 196-200: the lambda's value joins the new column; its exception
\* leaves apply and from_geodataframe.
CollectRow ==
  /\ gpc = "apply"
  /\ pc = "done"
  /\ IF raised = "none"
     THEN /\ series' = Append(series, result)
          /\ row' = row + 1
          /\ gpc' = gpc
     ELSE /\ gpc' = "raised"
          /\ UNCHANGED <<series, row>>
  /\ pc' = "idle"
  /\ UNCHANGED <<geometry, angle_threshold, min_distance, coords, new_coords,
                 i, call, result, raised, gdf, gdf_copy, aux_vars>>

\* Lines 196-201: the new column is assigned to the copy, which is returned.
ReturnGdf ==
  /\ gpc = "apply"
  /\ pc = "idle"
  /\ row > Len(gdf_copy)
  /\ gdf_copy' =
       [r \in 1 .. Len(gdf_copy) |-> [gdf_copy[r] EXCEPT !.geometry = series[r]]]
  /\ gpc' = "returned"
  /\ UNCHANGED <<geom_vars, gdf, series, row, aux_vars>>

\* One call of from_geodataframe, on any sample collection and thresholds.
InitGdf ==
  /\ gdf \in AllGeoDataFrames
  /\ angle_threshold \in Thresholds
  /\ min_distance \in MinDistances
  /\ gpc = "called"
  /\ gdf_copy = <<>>
  /\ series = <<>>
  /\ row = 0
  /\ geometry = NoGeometry
  /\ pc = "idle"
  /\ coords = <<>>
  /\ new_coords = <<>>
  /\ i = 0
  /\ call = NoCall
  /\ result = NoGeometry
  /\ raised = "none"
  /\ CliIdle
  /\ probe = NoProbe

NextGdf == CopyGdf \/ ApplyRow \/ Begin \/ LoopStep \/ Finish \/ CollectRow \/ ReturnGdf

SpecGdf == InitGdf /\ [][NextGdf]_vars

\* ------------------------------------------------------------- from_file and the CLI
\* args.layer values: the option absent, or a layer's name.
Layers == {"", "roads"}

\* args.output
OutputPath == "out.gpkg"

\* print(f"Spikes removed successfully. Output saved to: {args.output}")
SuccessMessage ==
  [text |-> "Spikes removed successfully. Output saved to: ", arg |-> OutputPath]

\* print(f"Error processing data: {e}"), for an exception of type e.
ErrorMessage(e) == [text |-> "Error processing data: ", arg |-> e]

\* cli.py lines 82-85: what is printed once gdf.to_file(args.output) has
\* returned, or raised an exception of type e.
PrintAfterToFileEarlySuccess(out, e) ==
  IF e = "none" THEN Append(out, SuccessMessage)
  ELSE Append(Append(out, SuccessMessage), ErrorMessage(e))

PrintAfterToFile(out, e) ==
  IF e = "none" THEN Append(out, SuccessMessage) ELSE Append(out, ErrorMessage(e))

\* cli.py lines 64-81: the arguments are parsed and from_file is called,
\* with the layer keyword when args.layer is true.
MainStart ==
  /\ cli_pc = "main"
  /\ events' = Append(events, [op |-> "from_file", layer |-> cli_layer])
  /\ cli_pc' = "from_file"
  /\ UNCHANGED <<geom_vars, gdf_vars, cli_layer, stdout, to_file_raised,
                 exit_status, probe>>

\* core.py lines 167-170: gpd.read_file gives a collection, which goes to
\* from_geodataframe, or fails with the reader's error.
ReadFile ==
  /\ cli_pc = "from_file"
  /\ gpc = "none"
  /\ \E ok \in BOOLEAN :
       IF ok
       THEN /\ gdf' \in AllGeoDataFrames
            /\ gpc' = "called"
            /\ UNCHANGED raised
       ELSE /\ gpc' = "raised"
            /\ raised' = "DriverError"
            /\ UNCHANGED gdf
  /\ UNCHANGED <<geometry, angle_threshold, min_distance, pc, coords, new_coords,
                 i, call, result, gdf_copy, series, row, aux_vars>>

\* cli.py lines 82-85, from_file having returned: gdf.to_file(args.output)
\* is called; the success message follows it, or its exception is caught
\* and reported.  main then returns and the process ends with status 0.
MainToFile ==
  /\ cli_pc = "from_file"
  /\ gpc = "returned"
  /\ events' = Append(events, [op |-> "to_file", layer |-> ""])
  /\ to_file_raised' \in {"none", "DriverError"}
  /\ stdout' = PrintAfterToFile(stdout, to_file_raised')
  /\ cli_pc' = "returned"
  /\ exit_status' = 0
  /\ UNCHANGED <<geom_vars, gdf_vars, cli_layer, probe>>

\* cli.py lines 84-85, from_file having raised: the exception is caught and
\* reported; main returns and the process ends with status 0.
MainExcept ==
  /\ cli_pc = "from_file"
  /\ gpc = "raised"
  /\ stdout' = Append(stdout, ErrorMessage(raised))
  /\ cli_pc' = "returned"
  /\ exit_status' = 0
  /\ UNCHANGED <<geom_vars, gdf_vars, cli_layer, events, to_file_raised, probe>>

\* One run of the CLI, with any layer option and thresholds.
InitCli ==
  /\ cli_pc = "main"
  /\ cli_layer \in Layers
  /\ events = <<>>
  /\ stdout = <<>>
  /\ to_file_raised = "none"
  /\ exit_status = -1
  /\ angle_threshold \in Thresholds
  /\ min_distance \in MinDistances
  /\ gdf = <<>>
  /\ gdf_copy = <<>>
  /\ series = <<>>
  /\ row = 0
  /\ gpc = "none"
  /\ geometry = NoGeometry
  /\ pc = "idle"
  /\ coords = <<>>
  /\ new_coords = <<>>
  /\ i = 0
  /\ call = NoCall
  /\ result = NoGeometry
  /\ raised = "none"
  /\ probe = NoProbe

NextCli ==
  \/ MainStart \/ ReadFile \/ CopyGdf \/ ApplyRow \/ Begin \/ LoopStep \/ Finish
  \/ CollectRow \/ ReturnGdf \/ MainToFile \/ MainExcept

SpecCli == InitCli /\ [][NextCli]_vars

\* ------------------------------------------------------------- coordinates with a third component
\* The third (elevation or measure) components of the sample coordinates.
ZValues == {0, 1}

\* The coordinate p with the third component z, as shapely's coords gives
\* it for a geometry that has one.
WithZ(p, z) == <<p[1], p[2], z>>

\* Three coordinates with third components: the planar triple t, the
\* components zs.
TripleZ(t, zs) == [k \in 1 .. 3 |-> WithZ(t[k], zs[k])]

\* _calculate_angle on both triples of the probe.
ProbeAngle ==
  /\ probe.stage = "input"
  /\ probe' =
       [stage |-> "angle", t1 |-> probe.t1, t2 |-> probe.t2,
        angle1 |-> CalculateAngle(probe.t1[1], probe.t1[2], probe.t1[3]),
        angle2 |-> CalculateAngle(probe.t2[1], probe.t2[2], probe.t2[3])]
  /\ UNCHANGED <<geom_vars, gdf_vars, cli_vars>>

\* _is_spike on both triples of the probe, under the same thresholds.
ProbeSpike ==
  /\ probe.stage = "angle"
  /\ probe' =
       [stage |-> "spike", t1 |-> probe.t1, t2 |-> probe.t2,
        angle1 |-> probe.angle1, angle2 |-> probe.angle2,
        spike1 |-> IsSpike(probe.t1[1], probe.t1[2], probe.t1[3],
                           angle_threshold, min_distance),
        spike2 |-> IsSpike(probe.t2[1], probe.t2[2], probe.t2[3],
                           angle_threshold, min_distance)]
  /\ UNCHANGED <<geom_vars, gdf_vars, cli_vars>>

\* Two triples of coordinates that agree on x and y, with any third
\* components, and any thresholds.
InitZ ==
  /\ \E t \in [1 .. 3 -> Points], zs1, zs2 \in [1 .. 3 -> ZValues] :
       probe = [stage |-> "input", t1 |-> TripleZ(t, zs1), t2 |-> TripleZ(t, zs2)]
  /\ angle_threshold \in Thresholds
  /\ min_distance \in MinDistances
  /\ geometry = NoGeometry
  /\ pc = "idle"
  /\ coords = <<>>
  /\ new_coords = <<>>
  /\ i = 0
  /\ call = NoCall
  /\ result = NoGeometry
  /\ raised = "none"
  /\ gdf = <<>>
  /\ gdf_copy = <<>>
  /\ series = <<>>
  /\ row = 0
  /\ gpc = "none"
  /\ CliIdle

NextZ == ProbeAngle \/ ProbeSpike

SpecZ == InitZ /\ [][NextZ]_vars

\* ------------------------------------------------------------- properties
\* The input's coordinate count.
N == Len(geometry.coords)

\* coords[j] (1-based) is a spike between its neighbours in the input.
SpikeAt(j) ==
  IsSpike(geometry.coords[j - 1], geometry.coords[j], geometry.coords[j + 1],
          angle_threshold, min_distance)

\* The junction vertex of a ring is a spike between coords[-2] and coords[1].
JunctionSpike ==
  IsSpike(geometry.coords[N - 1], geometry.coords[1], geometry.coords[2],
          angle_threshold, min_distance)

\* The input's vertices 2 .. j that are not spikes, in input order.
RECURSIVE KeptUpTo(_)
KeptUpTo(j) ==
  IF j < 2 THEN <<>>
  ELSE IF SpikeAt(j) THEN KeptUpTo(j - 1)
  ELSE Append(KeptUpTo(j - 1), geometry.coords[j])

KeptInterior == KeptUpTo(N - 1)

\* coords[j] coincides with one of its neighbours in the input.
DegenerateAt(j) ==
  \/ geometry.coords[j] = geometry.coords[j - 1]
  \/ geometry.coords[j] = geometry.coords[j + 1]

\* The input's vertices are pairwise different points (a ring's closing
\* coordinate aside).
DistinctVertices ==
  LET m == IF IsPolygon(geometry) THEN N - 1 ELSE N
  IN  \A j, k \in 1 .. m : j # k => geometry.coords[j] # geometry.coords[k]

DoneLine == pc = "done" /\ IsLine(geometry) /\ N >= 2
DoneRing == pc = "done" /\ IsPolygon(geometry) /\ ~IsEmpty(geometry)

\* C1: a LineString of at least two coordinates is returned with its first
\* coordinate first and its last coordinate last, whatever the thresholds;
\* during the scan new_coords already starts with the first coordinate.
TheoremC1 ==
  /\ (pc = "loop" /\ IsLine(geometry)) =>
       (Len(new_coords) >= 1 /\ new_coords[1] = geometry.coords[1])
  /\ DoneLine =>
       /\ raised = "none"
       /\ result.kind = "LineString"
       /\ Len(result.coords) >= 2
       /\ result.coords[1] = geometry.coords[1]
       /\ result.coords[Len(result.coords)] = geometry.coords[N]

\* C1: every interior vertex was removed and the two endpoints are left.
WitnessC1 ==
  /\ DoneLine
  /\ N = MaxLen
  /\ angle_threshold > 180
  /\ raised = "none"
  /\ result.coords = <<geometry.coords[1], geometry.coords[N]>>

\* C2: the LineString returned is the first coordinate, then every interior
\* coordinate that is not a spike between its neighbours in the input, in
\* input order, then the last coordinate; during the scan new_coords is that
\* list up to the index reached.
TheoremC2 ==
  /\ (pc = "loop" /\ IsLine(geometry)) =>
       new_coords = <<geometry.coords[1]>> \o KeptUpTo(i)
  /\ DoneLine =>
       /\ raised = "none"
       /\ result.coords =
            <<geometry.coords[1]>> \o KeptInterior \o <<geometry.coords[N]>>

\* C2: two adjacent interior vertices, each a spike between its neighbours
\* in the input, are both removed, although the second is no spike once the
\* first is gone.
WitnessC2 ==
  /\ DoneLine
  /\ DistinctVertices
  /\ N = 4
  /\ SpikeAt(2)
  /\ SpikeAt(3)
  /\ ~IsSpike(geometry.coords[1], geometry.coords[3], geometry.coords[4],
              angle_threshold, min_distance)
  /\ angle_threshold = 45
  /\ result.coords = <<geometry.coords[1], geometry.coords[4]>>

\* C3: a LineString none of whose interior vertices is a spike is returned
\* equal to the input; so are the empty one and the one of two coordinates.
TheoremC3 ==
  (pc = "done" /\ IsLine(geometry) /\ \A j \in 2 .. N - 1 : ~SpikeAt(j)) =>
    (raised = "none" /\ result = geometry)

\* C3: a path with interior vertices, tested against a threshold that
\* could remove some, comes back unchanged.
WitnessC3 ==
  /\ DoneLine
  /\ DistinctVertices
  /\ N = MaxLen
  /\ angle_threshold = 45
  /\ min_distance = 0
  /\ \A j \in 2 .. N - 1 : ~SpikeAt(j) /\ ~DegenerateAt(j)
  /\ result = geometry

\* C4: when the junction vertex of a ring is a spike, the retained list is
\* made of entries of the indices 1 .. n-2 only (neither index 0 nor the
\* closing index n-1), and it does not hold the junction's coordinate
\* unless the ring passes through that point again.
TheoremC4 ==
  (DoneRing /\ JunctionSpike) =>
    /\ new_coords = KeptInterior
    /\ Len(new_coords) <= N - 2
    /\ (\A j \in 2 .. N - 1 : geometry.coords[j] # geometry.coords[1]) =>
         (\A k \in 1 .. Len(new_coords) : new_coords[k] # geometry.coords[1])

\* C4: a ring whose junction is a spike and is dropped, the other vertices
\* being kept.
WitnessC4 ==
  /\ DoneRing
  /\ DistinctVertices
  /\ JunctionSpike
  /\ angle_threshold = 45
  /\ Len(new_coords) = N - 2
  /\ raised = "none"

\* C5: the retained list of a ring is, in input order, the junction vertex
\* unless it is a spike between coords[n-2] and coords[1], then each
\* coords[i], 1 <= i <= n-2, that is no spike between coords[i-1] and
\* coords[i+1]; the closing coordinate is neither evaluated nor appended.
TheoremC5 ==
  /\ (IsPolygon(geometry) /\ call.made) => call.at <= N - 2
  /\ (pc = "loop" /\ IsPolygon(geometry)) =>
       new_coords =
         (IF JunctionSpike THEN <<>> ELSE <<geometry.coords[1]>>) \o KeptUpTo(i)
  /\ DoneRing =>
       /\ new_coords =
            (IF JunctionSpike THEN <<>> ELSE <<geometry.coords[1]>>)
              \o KeptInterior
       /\ Len(new_coords) <= N - 1

\* C5: a ring that keeps its junction and loses one interior spike.
WitnessC5 ==
  /\ DoneRing
  /\ DistinctVertices
  /\ ~JunctionSpike
  /\ N = MaxLen + 1
  /\ \E j \in 2 .. N - 1 : SpikeAt(j)
  /\ Len(new_coords) = N - 2
  /\ raised = "none"

\* C6: a non-empty geometry that is neither a LineString nor a Polygon is
\* returned as it is.
CounterexampleC6 ==
  (pc = "done" /\ ~IsLine(geometry) /\ ~IsPolygon(geometry) /\ ~IsEmpty(geometry))
    => (raised = "none" /\ result = geometry)

\* C7: every call ends by returning a geometry; no exception leaves it.
CounterexampleC7 == pc = "done" => (raised = "none" /\ result # NoGeometry)

\* The triple of the last _is_spike call has no zero-length edge.
CallNonDegenerate == call.made /\ call.a # call.b /\ call.b # call.c

CallAngle == CalculateAngle(call.a, call.b, call.c).angle

\* C8: on a triple with no zero-length edge _is_spike is true exactly when
\* the angle is below the threshold and both edges are longer than
\* min_distance, all three strictly: an angle equal to the threshold or an
\* edge equal to min_distance is no spike.
TheoremC8 ==
  CallNonDegenerate =>
    /\ call.ret <=>
         /\ AngleLess(CallAngle, angle_threshold)
         /\ DistGreater(DistSq(call.a, call.b), min_distance)
         /\ DistGreater(DistSq(call.b, call.c), min_distance)
    /\ (angle_threshold \in 0 .. 180
          /\ 2 * CallAngle.num = CosSq2(angle_threshold) * CallAngle.den)
         => ~call.ret
    /\ (min_distance >= 0
          /\ \/ DistSq(call.a, call.b) = min_distance * min_distance
             \/ DistSq(call.b, call.c) = min_distance * min_distance)
         => ~call.ret

\* C8: a sharp vertex with one edge exactly min_distance long and the other
\* longer is found not to be a spike.
WitnessC8 ==
  /\ CallNonDegenerate
  /\ min_distance = 1
  /\ angle_threshold = 45
  /\ AngleLess(CallAngle, angle_threshold)
  /\ DistSq(call.a, call.b) = 1
  /\ DistSq(call.b, call.c) > 1
  /\ ~call.ret

\* The triple of the last _is_spike call has a zero-length edge.
CallDegenerate == call.made /\ (call.a = call.b \/ call.b = call.c)

\* C9: on a triple with a zero-length edge _is_spike is false, whatever the
\* thresholds; the vertex is appended, and a LineString keeps every
\* interior vertex that coincides with a neighbour.
TheoremC9 ==
  /\ CallDegenerate => ~call.ret
  /\ (pc = "loop" /\ CallDegenerate) =>
       (Len(new_coords) >= 1 /\ new_coords[Len(new_coords)] = call.b)
  /\ DoneLine =>
       Len(new_coords) >= 2 + Cardinality({j \in 2 .. N - 1 : DegenerateAt(j)})

\* C9: a vertex with a coincident neighbour survives a threshold and a
\* (negative) min_distance under which every other vertex is a spike.
WitnessC9 ==
  /\ DoneLine
  /\ CallDegenerate
  /\ angle_threshold > 180
  /\ min_distance < 0
  /\ \E j \in 2 .. N - 1 : ~DegenerateAt(j)
  /\ Len(result.coords) = 2 + Cardinality({j \in 2 .. N - 1 : DegenerateAt(j)})

\* ------------------------------------------------------------- from_geodataframe properties
\* C10: from_geodataframe returns a collection of as many rows as the
\* input, in the same order, each row's geometry being what
\* _remove_spikes_from_geometry returned for it and its other attribute
\* unchanged.
CounterexampleC10 ==
  gpc \in {"returned", "raised"} =>
    /\ gpc = "returned"
    /\ Len(gdf_copy) = Len(gdf)
    /\ \A r \in 1 .. Len(gdf) :
         /\ gdf_copy[r].id = gdf[r].id
         /\ gdf_copy[r].geometry = series[r]

\* C12: the polygon returned for a Polygon carries the interior rings of
\* the input.
CounterexampleC12 ==
  (DoneRing /\ raised = "none") => result.interiors = geometry.interiors

\* Two results of _calculate_angle agree: both fail, or both give the same
\* angle.
SameAngle(r1, r2) ==
  /\ r1.raised = r2.raised
  /\ r1.raised = "none" => r1.angle.num * r2.angle.den = r2.angle.num * r1.angle.den

\* C13: two triples that agree on x and y and differ in the third
\* component get the same angle (or both fail as degenerate) and the same
\* _is_spike result under the same thresholds.
CounterexampleC13 ==
  /\ probe.stage \in {"angle", "spike"} => SameAngle(probe.angle1, probe.angle2)
  /\ probe.stage = "spike" => probe.spike1 = probe.spike2

\* The ring g written from its vertex r + 1 on: the vertices rotated by r,
\* then the new first one again.
Rotate(g, r) ==
  LET m == Len(g.coords) - 1
      w == [j \in 1 .. m |-> g.coords[((j - 1 + r) % m) + 1]]
  IN  Geom(g.kind, w \o <<w[1]>>, g.interiors)

\* t is s started from another of its elements.
IsRotation(s, t) ==
  /\ Len(s) = Len(t)
  /\ Len(s) > 0 =>
       \E k \in 0 .. Len(s) - 1 :
         \A j \in 1 .. Len(s) : t[j] = s[((j - 1 + k) % Len(s)) + 1]

\* C14: for a ring of pairwise different vertices, the retained list of the
\* ring written from any other vertex is a rotation of the retained list of
\* the ring as given: the same vertices are removed wherever the seam is.
TheoremC14 ==
  (DoneRing /\ DistinctVertices) =>
    /\ new_coords = Retained(geometry, angle_threshold, min_distance)
    /\ \A r \in 1 .. N - 2 :
         IsRotation(new_coords,
                    Retained(Rotate(geometry, r), angle_threshold, min_distance))

\* C14: a ring whose junction is a spike and is removed; written from
\* another vertex, the same vertex is removed as an interior one and the
\* retained list differs from the first by a rotation only.
WitnessC14 ==
  /\ DoneRing
  /\ DistinctVertices
  /\ N = MaxLen + 1
  /\ JunctionSpike
  /\ Len(new_coords) = N - 2
  /\ raised = "none"
  /\ Retained(Rotate(geometry, 2), angle_threshold, min_distance) # new_coords
  /\ IsRotation(new_coords,
                Retained(Rotate(geometry, 2), angle_threshold, min_distance))

\* ------------------------------------------------------------- CLI properties
\* The operations main has called, in order.
EventOps == [k \in 1 .. Len(events) |-> events[k].op]

Printed(m) == \E k \in 1 .. Len(stdout) : stdout[k] = m

\* C11: the success message is printed only once from_file and then
\* to_file have both completed without an exception; when either raises,
\* main prints the error message with the exception's text and nothing
\* else, to_file is not called after a failed from_file, and main returns
\* normally with exit status 0 in every case.
TheoremC11 ==
  /\ Printed(SuccessMessage) =>
       /\ gpc = "returned"
       /\ to_file_raised = "none"
       /\ EventOps = <<"from_file", "to_file">>
  /\ (cli_pc = "returned" /\ gpc = "returned" /\ to_file_raised = "none") =>
       stdout = <<SuccessMessage>>
  /\ (cli_pc = "returned" /\ gpc = "raised") =>
       (stdout = <<ErrorMessage(raised)>> /\ EventOps = <<"from_file">>)
  /\ (cli_pc = "returned" /\ to_file_raised # "none") =>
       stdout = <<ErrorMessage(to_file_raised)>>
  /\ cli_pc \in {"main", "from_file", "returned"}
  /\ cli_pc = "returned" <=> exit_status = 0
  /\ cli_pc # "returned" => stdout = <<>>

\* C11: from_file returned a collection of rows, to_file then raised, and
\* main reported the error and returned.
WitnessC11 ==
  /\ cli_pc = "returned"
  /\ gpc = "returned"
  /\ Len(gdf_copy) = MaxRows
  /\ to_file_raised = "DriverError"
  /\ stdout = <<ErrorMessage("DriverError")>>
  /\ exit_status = 0

====
